---------------------------- MODULE Spec2Model ----------------------------
(***************************************************************************)
(* The run-event streaming engine of the agent backend: the in-memory      *)
(* runs and threads maps, POST /api/chat, GET /api/stream/:id, pushEvent   *)
(* and the background pipeline that produces a run's events; and, in front *)
(* of it, the browser client of public/script.js.                          *)
(*                                                                         *)
(* Node runs every handler and every continuation to completion on one     *)
(* thread, so one action is one handler (or one continuation) from its     *)
(* first statement to the point where it returns or awaits.                *)
(*                                                                         *)
(* Two things are outside the server's code and are nondeterministic:      *)
(*   - the response-generation collaborator is awaited: it may settle at   *)
(*     any later time, before or after other requests, and it may resolve  *)
(*     or reject;                                                          *)
(*   - a write to a sink (the response object of a stream request) may     *)
(*     raise once the handler that attached the sink has returned: each    *)
(*     continuation of a pipeline runs with some set of the run's sinks    *)
(*     failing.  A write that is lost without raising looks to the server  *)
(*     like a successful write.                                            *)
(***************************************************************************)
EXTENDS Integers, Sequences, FiniteSets, TLC

\* Bounds of the model.
MaxRuns == 2
MaxSinks == 2

VARIABLES
    runs,      \* the runs map: run id -> [id, events, clients, done]
    threads,   \* the threads map: thread id -> [id, history]
    uuid,      \* randomUUID(): the next identifier it returns
    pipe,      \* per run, the pipeline's closure and position
    sinks,     \* per stream request, its response object and connection
    chatRes,   \* the response object of the latest POST /api/chat
    client     \* the browser client of public/script.js: its variables,
               \* its page, its requests in flight and its EventSources

vars == <<runs, threads, uuid, pipe, sinks, chatRes, client>>

Sinks == 1..MaxSinks

---------------------------------------------------------------------------
\* Small helpers over sequences.

RECURSIVE SeqRemove(_, _)
\* Set.prototype.delete on an insertion-ordered set kept as a sequence.
SeqRemove(s, x) ==
    IF s = <<>> THEN <<>>
    ELSE IF Head(s) = x THEN SeqRemove(Tail(s), x)
    ELSE <<Head(s)>> \o SeqRemove(Tail(s), x)

SeqHas(s, x) == \E i \in 1..Len(s) : s[i] = x

\* Set.prototype.add: insertion order, no duplicates.
SeqAdd(s, x) == IF SeqHas(s, x) THEN s ELSE Append(s, x)

---------------------------------------------------------------------------
\* Request bodies of POST /api/chat.

\* message values: not a string, or a string given by its characters.
Messages ==
    { [type |-> "number"] }
    \cup { [type |-> "string", chars |-> c] :
             c \in { <<>>, <<" ">>, <<" ", "h">> } }

RECURSIVE TrimStart(_)
TrimStart(c) ==
    IF c = <<>> THEN <<>>
    ELSE IF Head(c) = " " THEN TrimStart(Tail(c)) ELSE c

RECURSIVE TrimEnd(_)
TrimEnd(c) ==
    IF c = <<>> THEN <<>>
    ELSE IF c[Len(c)] = " " THEN TrimEnd(SubSeq(c, 1, Len(c) - 1)) ELSE c

\* String.prototype.trim
Trim(c) == TrimEnd(TrimStart(c))

\* threadId values of a body: 0 is an absent (falsy) threadId, -1 is an
\* identifier the server never issued, the others are the keys of the
\* threads map.
ThreadIdInputs == {0, -1} \cup DOMAIN threads

\* The body text: unparsable, empty, the JSON value null, or a JSON object.
Bodies ==
    { [kind |-> "unparsable"], [kind |-> "empty"], [kind |-> "null"] }
    \cup { [kind |-> "object", message |-> m, threadId |-> t] :
             m \in Messages, t \in ThreadIdInputs }

\* JSON.parse(body || '{}') followed by the destructuring of line 151:
\* "throws" for text that does not parse and for null, whose properties
\* cannot be read; an empty body is '{}', with no message and no threadId.
ParseBody(b) ==
    CASE b.kind = "unparsable" -> [threw |-> TRUE]
      [] b.kind = "null"       -> [threw |-> TRUE]
      [] b.kind = "empty"      -> [threw |-> FALSE,
                                   message |-> [type |-> "undefined"],
                                   threadId |-> 0]
      [] OTHER                 -> [threw |-> FALSE,
                                   message |-> b.message,
                                   threadId |-> b.threadId]

\* The check without its trim: any non-empty string passes.
MessageOk_NoTrim(m) == m.type = "string" /\ m.chars # <<>>

\* The negation of: typeof message !== 'string' || !message.trim()
MessageOk(m) == m.type = "string" /\ Trim(m.chars) # <<>>

---------------------------------------------------------------------------
\* Events and their wire form.

FakeResults ==
    [hits |-> << [title |-> "Placeholder", snippet |-> "This is a fake result."] >>]

ToolStart(message, cardId) ==
    [type |-> "tool_start", tool |-> "search",
     input |-> [query |-> message], cardId |-> cardId]

ToolDone(cardId) ==
    [type |-> "tool_done", tool |-> "search",
     output |-> FakeResults, cardId |-> cardId]

AssistantDone(text, threadId) ==
    [type |-> "assistant_done", text |-> text, threadId |-> threadId]

\* generateAssistantResponse once it resolves: the template string, kept as
\* its parts.
AssistantText(message, searchResults) ==
    <<"You said: ", message, ". I found ", Len(searchResults.hits),
      " search result(s).">>

\* `An error occurred: ${err?.message || err}`
ErrorText(err) == <<"An error occurred: ", err>>

\* `data: ${JSON.stringify(ev)}\n\n`
SsePayload(ev) == <<"data: ", ev, "\n\n">>

\* What a reader of the stream decodes from the payloads written so far.
Received(written) == [i \in 1..Len(written) |-> written[i][2]]

---------------------------------------------------------------------------
\* pushEvent

RECURSIVE WriteAll(_, _, _, _)
\* for (const res of run.clients) res.write(payload): in insertion order;
\* the first write that raises ends the loop.  failing: the sinks whose
\* write raises; a sink keeps the fact that a write to it has raised.
WriteAll(clients, sk, payload, failing) ==
    IF clients = <<>> THEN [sinks |-> sk, threw |-> FALSE]
    ELSE LET s == Head(clients) IN
         IF s \in failing
         THEN [sinks |-> [sk EXCEPT ![s].failed = TRUE], threw |-> TRUE]
         ELSE WriteAll(Tail(clients),
                       [sk EXCEPT ![s].written = Append(@, payload)],
                       payload, failing)

PushEvent(run, sk, ev, failing) ==
    LET pushed == [run EXCEPT !.events = Append(@, ev)]
        w == WriteAll(pushed.clients, sk, SsePayload(ev), failing)
    IN  [run |-> pushed, sinks |-> w.sinks, threw |-> w.threw]

---------------------------------------------------------------------------
\* The pipeline: the async function started by a valid POST /api/chat.

\* The tool steps with a second randomUUID() for the tool_done event
\* instead of searchCardId.
TryToolSteps_FreshDoneId(run, sk, message, cardId, failing) ==
    LET e1 == PushEvent(run, sk, ToolStart(message, cardId), failing) IN
    IF e1.threw THEN e1
    ELSE PushEvent(e1.run, e1.sinks, ToolDone(cardId + 1), failing)

\* The two tool steps of the try block, up to the call of the collaborator.
\* A push that raises leaves the try block at once.
TryToolSteps(run, sk, message, cardId, failing) ==
    LET e1 == PushEvent(run, sk, ToolStart(message, cardId), failing) IN
    IF e1.threw THEN e1
    ELSE PushEvent(e1.run, e1.sinks, ToolDone(cardId), failing)

\* The rest of the try block once the awaited collaborator has settled:
\* a rejection is raised at the await, a result is pushed as assistant_done.
\* err is the message of the error that leaves the try block, "none" if none.
TryAssistantStep(run, sk, message, threadId, outcome, failing) ==
    IF outcome = "reject"
    THEN [run |-> run, sinks |-> sk, err |-> "collaborator failed"]
    ELSE LET e == PushEvent(run, sk,
                      AssistantDone(AssistantText(message, FakeResults), threadId),
                      failing)
         IN  [run |-> e.run, sinks |-> e.sinks,
              err |-> IF e.threw THEN "write failed" ELSE "none"]

\* An empty catch block: the error is swallowed and nothing is pushed.
CatchBlock_Empty(run, sk, err, threadId, failing) ==
    [run |-> run, sinks |-> sk, threw |-> FALSE]

\* catch (err) { pushEvent(run, assistant_done with the error text) }
CatchBlock(run, sk, err, threadId, failing) ==
    PushEvent(run, sk, AssistantDone(ErrorText(err), threadId), failing)

\* finally { run.done = true; for (const client of run.clients) client.end() }
FinallyBlock(run, sk) ==
    [run   |-> [run EXCEPT !.done = TRUE],
     sinks |-> [s \in DOMAIN sk |->
                  IF SeqHas(run.clients, s)
                  THEN [sk[s] EXCEPT !.ended = TRUE] ELSE sk[s]]]

\* The pipeline without its finally block: the run is closed only when the
\* catch block raises nothing.
CatchFinally_NoFinally(run, sk, err, threadId, failing) ==
    LET c == IF err = "none"
             THEN [run |-> run, sinks |-> sk, threw |-> FALSE]
             ELSE CatchBlock(run, sk, err, threadId, failing)
        f == IF c.threw THEN [run |-> c.run, sinks |-> c.sinks]
             ELSE FinallyBlock(c.run, c.sinks)
    IN  [run |-> f.run, sinks |-> f.sinks, escaped |-> c.threw]

\* The catch block (entered when err is an error) and then the finally block.
\* escaped: an error raised inside the catch block leaves the pipeline.
CatchFinally(run, sk, err, threadId, failing) ==
    LET c == IF err = "none"
             THEN [run |-> run, sinks |-> sk, threw |-> FALSE]
             ELSE CatchBlock(run, sk, err, threadId, failing)
        f == FinallyBlock(c.run, c.sinks)
    IN  [run |-> f.run, sinks |-> f.sinks, escaped |-> c.threw]

---------------------------------------------------------------------------
\* The state after construction: empty maps, nothing requested yet.

NewSink ==
    [conn |-> "new", run |-> 0, statusCode |-> 200,
     written |-> <<>>, ended |-> FALSE, failed |-> FALSE]

NoResponse == [statusCode |-> 0, body |-> [error |-> "none"]]

\* The client's script when the page has loaded: threadId and es are
\* undefined (0), the send button is enabled, the chat panel is empty, and
\* no request and no EventSource has been made.
NewClient ==
    [threadId |-> 0, es |-> 0, disabled |-> FALSE, chat |-> <<>>,
     cards |-> <<>>, fetches |-> <<>>, sources |-> <<>>]

\* sendJson(res, statusCode, data)
SendJson(statusCode, data) == [statusCode |-> statusCode, body |-> data]

Init ==
    /\ runs = <<>>
    /\ threads = <<>>
    /\ uuid = 1
    /\ pipe = <<>>
    /\ sinks = [s \in Sinks |-> NewSink]
    /\ chatRes = NoResponse
    /\ client = NewClient

---------------------------------------------------------------------------
\* POST /api/chat: the 'end' callback, from JSON.parse to the response.  The
\* pipeline runs inside it up to its await.

\* The handler without the lookup of line 161: every request gets a new
\* thread.
CreateRun_NoLookup(message, threadId) ==
    LET runId  == uuid
        run    == [id |-> runId, events |-> <<>>, clients |-> <<>>, done |-> FALSE]
        thread == [id |-> uuid + 1, history |-> <<>>]
        cardId == uuid + 2
        t      == TryToolSteps(run, sinks, message, cardId, {})
    IN  /\ threads' = (thread.id :> thread) @@ threads
        /\ uuid' = cardId + 1
        /\ runs' = (runId :> t.run) @@ runs
        /\ sinks' = t.sinks
        /\ pipe' = (runId :> [pc |-> "awaiting", message |-> message,
                              threadId |-> thread.id,
                              escaped |-> FALSE]) @@ pipe
        /\ chatRes' = SendJson(200, [runId |-> runId, threadId |-> thread.id])

\* Lines 155-189 for a valid message and the threadId the body carries.
CreateRun(message, threadId) ==
    LET runId  == uuid
        run    == [id |-> runId, events |-> <<>>, clients |-> <<>>, done |-> FALSE]
        known  == threadId # 0 /\ threadId \in DOMAIN threads
        thread == IF known THEN threads[threadId]
                  ELSE [id |-> uuid + 1, history |-> <<>>]
        cardId == IF known THEN uuid + 1 ELSE uuid + 2
        t      == TryToolSteps(run, sinks, message, cardId, {})
        f      == CatchFinally(t.run, t.sinks, "write failed", thread.id, {})
    IN  /\ threads' = IF known THEN threads ELSE (thread.id :> thread) @@ threads
        /\ uuid' = cardId + 1
        /\ IF t.threw
           THEN /\ runs' = (runId :> f.run) @@ runs
                /\ sinks' = f.sinks
                /\ pipe' = (runId :> [pc |-> "closed", message |-> message,
                                      threadId |-> thread.id,
                                      escaped |-> f.escaped]) @@ pipe
           ELSE /\ runs' = (runId :> t.run) @@ runs
                /\ sinks' = t.sinks
                /\ pipe' = (runId :> [pc |-> "awaiting", message |-> message,
                                      threadId |-> thread.id,
                                      escaped |-> FALSE]) @@ pipe
        /\ chatRes' = SendJson(200, [runId |-> runId, threadId |-> thread.id])

ChatRequest(b) ==
    LET p == ParseBody(b) IN
    IF p.threw
    THEN /\ chatRes' = SendJson(400, [error |-> "Invalid JSON"])
         /\ UNCHANGED <<runs, threads, uuid, pipe, sinks>>
    ELSE IF ~MessageOk(p.message)
    THEN /\ chatRes' = SendJson(400, [error |-> "message is required"])
         /\ UNCHANGED <<runs, threads, uuid, pipe, sinks>>
    ELSE /\ Cardinality(DOMAIN runs) < MaxRuns
         /\ CreateRun(p.message.chars, p.threadId)

---------------------------------------------------------------------------
\* GET /api/stream/:id on a fresh connection s.

\* The last path segment: -1 is a segment that is no key of the runs map
\* (the empty segment of '/api/stream/' among them), the others are run ids.
StreamIds == {-1} \cup DOMAIN runs

RECURSIVE Replay(_, _)
\* for (const ev of run.events) res.write(...): the replay of the log.
Replay(events, sink) ==
    IF events = <<>> THEN sink
    ELSE Replay(Tail(events),
                [sink EXCEPT !.written = Append(@, SsePayload(Head(events)))])

\* The handler without the replay loop of lines 131-133.
Attach_NoReplay(run, sink, s) ==
    [run  |-> [run EXCEPT !.clients = SeqAdd(@, s)],
     sink |-> [sink EXCEPT !.conn = "streaming", !.run = run.id]]

\* Lines 124-137: add the sink, replay, register the 'close' callback.
Attach(run, sink, s) ==
    [run  |-> [run EXCEPT !.clients = SeqAdd(@, s)],
     sink |-> [Replay(run.events, sink) EXCEPT !.conn = "streaming",
                                               !.run = run.id]]

\* The 404 answer without its res.end().
NotFound_NoEnd(sink) == [sink EXCEPT !.conn = "notfound", !.statusCode = 404]

\* Lines 119-123: res.statusCode = 404; res.end()
NotFound(sink) == [sink EXCEPT !.conn = "notfound", !.statusCode = 404,
                               !.ended = TRUE]

\* The handler with the test of line 119 written as (!run || run.done): a
\* run that is done is answered like an unknown one.
StreamRequest_DoneIsGone(s, id) ==
    /\ sinks[s].conn = "new"
    /\ \A q \in Sinks : q < s => sinks[q].conn # "new"
    /\ IF id \notin DOMAIN runs \/ runs[id].done
       THEN /\ sinks' = [sinks EXCEPT ![s] = NotFound(@)]
            /\ UNCHANGED runs
       ELSE LET a == Attach(runs[id], sinks[s], s) IN
            /\ sinks' = [sinks EXCEPT ![s] = a.sink]
            /\ runs' = [runs EXCEPT ![id] = a.run]
    /\ UNCHANGED <<threads, uuid, pipe, chatRes>>

\* Connections are numbered in the order in which they are made.
StreamRequest(s, id) ==
    /\ sinks[s].conn = "new"
    /\ \A q \in Sinks : q < s => sinks[q].conn # "new"
    /\ IF id \notin DOMAIN runs
       THEN /\ sinks' = [sinks EXCEPT ![s] = NotFound(@)]
            /\ UNCHANGED runs
       ELSE LET a == Attach(runs[id], sinks[s], s) IN
            /\ sinks' = [sinks EXCEPT ![s] = a.sink]
            /\ runs' = [runs EXCEPT ![id] = a.run]
    /\ UNCHANGED <<threads, uuid, pipe, chatRes>>

\* The removal written as clients.splice(clients.indexOf(res), 1) on an
\* array: for a sink that is not in it, indexOf is -1 and the last one goes.
Detach_Splice(run, s) ==
    [run EXCEPT !.clients = IF SeqHas(@, s) THEN SeqRemove(@, s)
                            ELSE SubSeq(@, 1, Len(@) - 1)]

\* req.on('close', ...): the connection of a stream request closes.
Detach(run, s) == [run EXCEPT !.clients = SeqRemove(@, s)]

\* The connection is gone and, once the callback has run, the server holds
\* no reference to its response object: nothing of it is kept but the fact
\* that the connection has closed.
ClosedSink == [NewSink EXCEPT !.conn = "closed"]

CloseConnection(s) ==
    /\ sinks[s].conn = "streaming"
    /\ runs' = [runs EXCEPT ![sinks[s].run] = Detach(@, s)]
    /\ sinks' = [sinks EXCEPT ![s] = ClosedSink]
    /\ UNCHANGED <<threads, uuid, pipe, chatRes>>

---------------------------------------------------------------------------
\* The pipeline's continuation after the await: the collaborator has
\* settled, and the rest of try, catch and finally run without a pause.

Outcomes == {"resolve", "reject"}

\* failing: the sinks whose write raises during this continuation.
Resume(r, outcome, failing) ==
    /\ r \in DOMAIN pipe
    /\ pipe[r].pc = "awaiting"
    /\ \A s \in failing : SeqHas(runs[r].clients, s)
    /\ LET t == TryAssistantStep(runs[r], sinks, pipe[r].message,
                                 pipe[r].threadId, outcome, failing)
           f == CatchFinally(t.run, t.sinks, t.err, pipe[r].threadId, failing)
       IN  /\ runs' = [runs EXCEPT ![r] = f.run]
           /\ sinks' = f.sinks
           /\ pipe' = [pipe EXCEPT ![r].pc = "closed",
                                   ![r].escaped = f.escaped]
    /\ UNCHANGED <<threads, uuid, chatRes>>

---------------------------------------------------------------------------

\* Every identifier randomUUID can have returned within the bounds.
Uuids == 1..(3 * MaxRuns)

\* The server with requests from anywhere: the browser client does not move.
Next ==
    \/ (\E b \in Bodies : ChatRequest(b)) /\ UNCHANGED client
    \/ (\E s \in Sinks, id \in StreamIds : StreamRequest(s, id))
          /\ UNCHANGED client
    \/ (\E s \in Sinks : CloseConnection(s)) /\ UNCHANGED client
    \/ (\E r \in Uuids, o \in Outcomes, f \in SUBSET Sinks : Resume(r, o, f))
          /\ UNCHANGED client

Spec == Init /\ [][Next]_vars

\* The event loop runs the continuation of a settled await, and the
\* collaborator settles.
FairSpec == Spec /\ \A r \in Uuids : WF_vars((\E o \in Outcomes, f \in SUBSET Sinks : Resume(r, o, f)) /\ UNCHANGED client)

---------------------------------------------------------------------------
\* pushEvent as an operation of its own: the program together with a caller
\* that applies pushEvent to any run of the runs map, done or not.

\* Bound of the model: the caller appends to a log shorter than this.
MaxLog == 4

\* The events such a caller appends.
CallerEvents == { ToolDone(0) }

AppendCall(r, ev, failing) ==
    /\ r \in DOMAIN runs
    /\ Len(runs[r].events) < MaxLog
    /\ \A s \in failing : SeqHas(runs[r].clients, s)
    /\ LET p == PushEvent(runs[r], sinks, ev, failing) IN
       /\ runs' = [runs EXCEPT ![r] = p.run]
       /\ sinks' = p.sinks
    /\ UNCHANGED <<threads, uuid, pipe, chatRes>>

PushNext ==
    \/ Next
    \/ (\E r \in Uuids, ev \in CallerEvents, f \in SUBSET Sinks :
          AppendCall(r, ev, f)) /\ UNCHANGED client

PushSpec == Init /\ [][PushNext]_vars

---------------------------------------------------------------------------
\* The 'close' callback as an operation of its own: the program together
\* with a caller that runs the callback's body, run.clients.delete(res), for
\* any run and any response object: one that is in run.clients (its
\* connection closes), one whose callback has already run, one that was
\* never added to this run.

DetachCall(r, s) ==
    /\ r \in DOMAIN runs
    /\ runs' = [runs EXCEPT ![r] = Detach(@, s)]
    /\ sinks' = IF sinks[s].conn = "streaming" /\ sinks[s].run = r
                THEN [sinks EXCEPT ![s] = ClosedSink]
                ELSE sinks
    /\ UNCHANGED <<threads, uuid, pipe, chatRes>>

DetachNext ==
    \/ Next
    \/ (\E r \in Uuids, s \in Sinks : DetachCall(r, s)) /\ UNCHANGED client

DetachSpec == Init /\ [][DetachNext]_vars

---------------------------------------------------------------------------
\* The browser client (public/script.js) in front of the server.  Its
\* handlers run to completion, one at a time; between them the POST of a
\* send() travels to the server and its answer back, an EventSource connects,
\* and the payloads written to its stream arrive one by one, in order.
\*   client.fetches: the POSTs, each "sent", "answered" or "handled";
\*   client.sources: the EventSource objects made so far, each "connecting",
\*     "open" or "closed"; client.es is the index of the one the variable es
\*     holds, 0 for undefined or null;
\*   client.chat, client.cards: what the page shows.

ServerVars == <<runs, threads, uuid, pipe, sinks, chatRes>>

\* What the user has typed into msgInput when send() runs.
ClientInputs == { <<" ">>, <<"h">>, <<"i", " ">> }

\* appendMessage(role, text)
AppendMessage(c, role, text) == [c EXCEPT !.chat = Append(@, <<role, text>>)]

\* if (es) es.close(), on the EventSource that es holds at that moment
CloseEs(c) ==
    IF c.es = 0 THEN c ELSE [c EXCEPT !.sources[c.es].state = "closed"]

\* send(), from the click on sendBtn (which a disabled button does not
\* deliver) or from the Enter key in msgInput (which does not look at the
\* button): up to the call of fetch.
Send(input) ==
    LET text == Trim(input) IN
    /\ text # <<>>
    /\ Len(client.fetches) < MaxRuns
    /\ client' = [AppendMessage(client, "user", text) EXCEPT
                    !.cards = <<>>,
                    !.disabled = TRUE,
                    !.fetches = Append(@, [message |-> text,
                                           threadId |-> client.threadId,
                                           state |-> "sent",
                                           res |-> NoResponse])]
    /\ UNCHANGED ServerVars

\* The POST of fetch k is handled by the server; JSON.stringify leaves an
\* undefined threadId out of the body.
FetchArrives(k) ==
    /\ k \in DOMAIN client.fetches
    /\ client.fetches[k].state = "sent"
    /\ ChatRequest([kind |-> "object",
                    message |-> [type |-> "string",
                                 chars |-> client.fetches[k].message],
                    threadId |-> client.fetches[k].threadId])
    /\ client' = [client EXCEPT !.fetches[k].state = "answered",
                                !.fetches[k].res = chatRes']

\* .then((data) => { ... }) of fetch k, lines 124-145: a new EventSource for
\* data.runId takes the place of the one in es, which is closed.
FetchThen(k) ==
    /\ k \in DOMAIN client.fetches
    /\ client.fetches[k].state = "answered"
    /\ LET res   == client.fetches[k].res
           ok    == res.statusCode = 200
           c1    == [client EXCEPT
                       !.threadId = IF ok THEN res.body.threadId ELSE 0,
                       !.fetches[k].state = "handled"]
           c2    == CloseEs(c1)
           fresh == [run |-> IF ok THEN res.body.runId ELSE -1,
                     state |-> "connecting", sink |-> 0, delivered |-> 0]
       IN  client' = [c2 EXCEPT !.sources = Append(@, fresh),
                                !.es = Len(c2.sources) + 1]
    /\ UNCHANGED ServerVars

\* The GET of EventSource e is handled by the server, on the next unused
\* connection.
EventSourceConnects(e) ==
    /\ e \in DOMAIN client.sources
    /\ client.sources[e].state = "connecting"
    /\ \E s \in Sinks :
          /\ StreamRequest(s, client.sources[e].run)
          /\ client' = [client EXCEPT !.sources[e].state = "open",
                                      !.sources[e].sink = s]

\* handleToolEvent(event): a new card for tool_start; for tool_done the card
\* of its cardId, if there is one, is marked.
HandleToolEvent(c, event) ==
    LET cs == c.cards IN
    IF event.type = "tool_start"
    THEN [c EXCEPT !.cards = Append(cs, [id |-> event.cardId,
                                         status |-> "pending"])]
    ELSE [c EXCEPT !.cards =
            [i \in DOMAIN cs |->
               IF cs[i].id = event.cardId
               THEN [cs[i] EXCEPT !.status = "done"] ELSE cs[i]]]

\* handleAssistantDone(event): the text is shown and the EventSource that es
\* holds is closed.
HandleAssistantDone(c, event) ==
    LET shown == AppendMessage(c, "assistant", event.text) IN
    IF shown.es = 0 THEN shown ELSE [CloseEs(shown) EXCEPT !.es = 0]

\* es.onmessage of EventSource e for the next payload of its stream,
\* lines 129-137.  A closed EventSource dispatches nothing.
OnMessage(e) ==
    /\ e \in DOMAIN client.sources
    /\ client.sources[e].state = "open"
    /\ LET src    == client.sources[e]
           events == Received(sinks[src.sink].written)
       IN  /\ src.delivered < Len(events)
           /\ LET event == events[src.delivered + 1]
                  c0    == [client EXCEPT !.sources[e].delivered = @ + 1]
              IN  client' =
                    IF event.type = "assistant_done"
                    THEN [HandleAssistantDone(c0, event) EXCEPT
                            !.disabled = FALSE]
                    ELSE HandleToolEvent(c0, event)
    /\ UNCHANGED ServerVars

\* es.onerror of EventSource e, lines 138-144: the server has answered 404,
\* or has ended the stream and all of it has been dispatched.
OnError(e) ==
    /\ e \in DOMAIN client.sources
    /\ client.sources[e].state = "open"
    /\ LET sink == sinks[client.sources[e].sink] IN
       /\ sink.conn = "notfound" \/ sink.ended
       /\ client.sources[e].delivered = Len(sink.written)
    /\ client' = IF client.es = 0 THEN client
                 ELSE [CloseEs(client) EXCEPT !.es = 0, !.disabled = FALSE]
    /\ UNCHANGED ServerVars

\* The connection of an EventSource that the client has closed closes at
\* the server: the 'close' callback of its request runs.
ConnectionCloses(e) ==
    /\ e \in DOMAIN client.sources
    /\ client.sources[e].state = "closed"
    /\ client.sources[e].sink # 0
    /\ CloseConnection(client.sources[e].sink)
    /\ UNCHANGED client

\* The POSTs and the EventSources one page makes within the bounds.
Sources == 1..MaxRuns

ClientNext ==
    \/ \E input \in ClientInputs : Send(input)
    \/ \E k \in Sources : FetchArrives(k)
    \/ \E k \in Sources : FetchThen(k)
    \/ \E e \in Sources : EventSourceConnects(e)
    \/ \E e \in Sources : OnMessage(e)
    \/ \E e \in Sources : OnError(e)
    \/ \E e \in Sources : ConnectionCloses(e)
    \/ (\E r \in Uuids, o \in Outcomes, f \in SUBSET Sinks : Resume(r, o, f))
          /\ UNCHANGED client

\* The server with this one page as its only client.
ClientSpec == Init /\ [][ClientNext]_vars

---------------------------------------------------------------------------
\* Properties.

\* A sink that is attached to a run: it was added by a stream request and
\* its connection has not closed.
Attached(s) == sinks[s].conn = "streaming"

\* The positions of the assistant_done events of a log.
TerminalAt(events) ==
    {i \in 1..Len(events) : events[i].type = "assistant_done"}

\* C1: replay completeness.  At every state, every observer that is attached
\* to a run has been written exactly the run's log, in log order, without a
\* repeat and without a gap.  Stated for the observers to which no write has
\* raised.
C1_ReplayCompleteness ==
    \A s \in Sinks :
        (Attached(s) /\ ~sinks[s].failed)
            => Received(sinks[s].written) = runs[sinks[s].run].events

\* C2: the server ends an observer's stream exactly when the run is closed:
\* never before the run is done, and once the run is done (whether the
\* observer attached before or after that) the stream is eventually ended
\* by the server, unless the observer leaves first.
C2_StreamEndsWithRun ==
    \A s \in Sinks :
        /\ []((Attached(s) /\ sinks[s].ended) => runs[sinks[s].run].done)
        /\ []((Attached(s) /\ runs[sinks[s].run].done)
                 => <>(sinks[s].ended \/ ~Attached(s)))

\* C3: single terminal event.  A run's log never holds more than one
\* assistant_done event, and when the run is done it holds exactly one, as
\* its last element.
C3_SingleTerminalEvent ==
    \A r \in DOMAIN runs :
        LET ev == runs[r].events IN
        /\ Cardinality(TerminalAt(ev)) <= 1
        /\ runs[r].done => TerminalAt(ev) = {Len(ev)}

\* C4: closure guarantee.  Every run that is created is eventually marked
\* done, whether the collaborator resolves or rejects; done is set once (it
\* never goes back, and the pipeline never runs again); and in the step that
\* sets it every sink that is in run.clients is ended.
C4_ClosureGuarantee ==
    /\ \A r \in Uuids :
          [](r \in DOMAIN runs => <>(r \in DOMAIN runs /\ runs[r].done))
    /\ [][\A r \in DOMAIN runs :
            /\ runs[r].done => (runs'[r].done /\ pipe'[r].pc = "closed")
            /\ (~runs[r].done /\ runs'[r].done)
                 => /\ pipe[r].pc = "awaiting"
                    /\ \A i \in 1..Len(runs'[r].clients) :
                          sinks'[runs'[r].clients[i]].ended]_vars

\* A run closed after the collaborator rejected, with both sinks attached
\* to it ended.
C4_Witness ==
    \E r \in DOMAIN runs :
        /\ runs[r].done
        /\ Len(runs[r].clients) = 2
        /\ \A i \in 1..2 : sinks[runs[r].clients[i]].ended
        /\ runs[r].events[Len(runs[r].events)].text
               = ErrorText("collaborator failed")

\* C5: whenever a run is done its subscriber set is empty, and its log is
\* never changed again: after the finish step and after any later attach or
\* detach.
C5_DoneMeansEmptyAndFrozen ==
    [][\A r \in DOMAIN runs' :
         runs'[r].done
           => /\ runs'[r].clients = <<>>
              /\ (r \in DOMAIN runs /\ runs[r].done)
                    => runs'[r].events = runs[r].events]_vars

\* C6: pushEvent applied to a run that is already done fails (it raises),
\* leaves the log unchanged and writes to no sink.
C6_AppendAfterDoneFails ==
    [][\A r \in DOMAIN runs, ev \in CallerEvents :
         (runs[r].done /\ AppendCall(r, ev, {}))
           => /\ PushEvent(runs[r], sinks, ev, {}).threw
              /\ runs'[r].events = runs[r].events
              /\ sinks' = sinks]_vars

\* C7: sink write failure isolation.  When the pipeline broadcasts to the
\* sinks of a run and the write to one of them raises, every other attached
\* sink has still been written the whole log, the failing sink is no longer
\* in run.clients, and the pipeline goes on as if nothing had failed: no
\* error leaves it and the log is the one it produces without the failure.
C7_WriteFailureIsolated ==
    [][\A r \in DOMAIN runs :
         LET cl == runs[r].clients
             failing == {i \in 1..Len(cl) : sinks'[cl[i]].failed}
         IN  (~runs[r].done /\ runs'[r].done /\ failing # {})
               => /\ \A i \in 1..Len(cl) :
                        i \notin failing
                          => Received(sinks'[cl[i]].written) = runs'[r].events
                  /\ \A i \in failing : ~SeqHas(runs'[r].clients, cl[i])
                  /\ ~pipe'[r].escaped
                  /\ Len(runs'[r].events) = Len(runs[r].events) + 1]_vars

\* C8: a rejection of the collaborator is recovered inside the pipeline:
\* the step in which the rejection arrives appends one assistant_done event
\* that carries the error text and the id of the owning thread, marks the run
\* done, ends its sinks, and lets no error leave the pipeline.
C8_RejectionRecovered ==
    [][\A r \in DOMAIN runs, f \in SUBSET Sinks :
         Resume(r, "reject", f)
           => /\ runs'[r].events
                   = Append(runs[r].events,
                            AssistantDone(ErrorText("collaborator failed"),
                                          pipe[r].threadId))
              /\ pipe[r].threadId \in DOMAIN threads
              /\ runs'[r].done
              /\ \A i \in 1..Len(runs'[r].clients) :
                    sinks'[runs'[r].clients[i]].ended
              /\ ~pipe'[r].escaped]_vars

\* A message that is no string, or a string of nothing but blanks.
BlankMessage(m) ==
    m.type # "string" \/ \A i \in 1..Len(m.chars) : m.chars[i] = " "

\* C9: validation precedes creation.  A POST /api/chat whose body does not
\* parse, or whose message is not a string or is empty after trimming, is
\* answered with status 400 and changes neither the runs map nor the threads
\* map, and starts no pipeline.
C9_ValidationPrecedesCreation ==
    [][\/ /\ chatRes'.statusCode = 400
          /\ UNCHANGED <<runs, threads, pipe, uuid>>
       \/ \A b \in Bodies :
            (b.kind # "object" \/ BlankMessage(b.message)) => ~ChatRequest(b)]_vars

\* A rejected request that arrived while a run existed.
C9_Witness ==
    /\ chatRes = SendJson(400, [error |-> "message is required"])
    /\ DOMAIN runs # {}

\* C10: a stream request for an identifier that is not in the runs map gets
\* 404 with the response ended, changes no run, thread or pipeline, and its
\* sink is never in any run's subscriber set and is never written an event.
C10_UnknownRunNotFound ==
    [][/\ \A s \in Sinks, id \in StreamIds :
            (id \notin DOMAIN runs /\ StreamRequest(s, id))
              => /\ sinks'[s].conn = "notfound"
                 /\ sinks'[s].statusCode = 404
                 /\ sinks'[s].ended
                 /\ UNCHANGED <<runs, threads, pipe, uuid>>
       /\ \A s \in Sinks :
            sinks'[s].conn = "notfound"
              => /\ sinks'[s].written = <<>>
                 /\ sinks'[s].statusCode = 404
                 /\ sinks'[s].ended
                 /\ \A r \in DOMAIN runs' : ~SeqHas(runs'[r].clients, s)]_vars

\* A request for an unknown identifier was refused while a run with an
\* attached sink and a pipeline at work existed.
C10_Witness ==
    \E s \in Sinks, r \in DOMAIN runs :
        /\ sinks[s].conn = "notfound"
        /\ ~runs[r].done
        /\ runs[r].clients # <<>>

\* The bodies that pass the validation: an object with a message that is a
\* string and is not blank.
ValidBodies == {b \in Bodies : b.kind = "object" /\ ~BlankMessage(b.message)}

\* C11: thread resolution.  A valid POST whose threadId is a key of the
\* threads map is answered with that threadId and a fresh runId and adds no
\* thread; a valid POST with no threadId or an unknown one stores one new
\* thread, with an empty history, under an identifier that was no key of the
\* threads map, and is answered with it.  No step removes or replaces a
\* thread.
C11_ThreadResolution ==
    [][/\ \A k \in DOMAIN threads :
            k \in DOMAIN threads' /\ threads'[k] = threads[k]
       /\ \/ uuid' = uuid   \* no identifier drawn: no run was created
          \/ \A b \in ValidBodies :
               ChatRequest(b)
                 => LET tid == chatRes'.body.threadId
                        rid == chatRes'.body.runId
                    IN  /\ chatRes'.statusCode = 200
                        /\ rid \notin DOMAIN runs /\ rid \in DOMAIN runs'
                        /\ IF b.threadId # 0 /\ b.threadId \in DOMAIN threads
                           THEN tid = b.threadId /\ threads' = threads
                           ELSE /\ tid \notin DOMAIN threads
                                /\ DOMAIN threads' = DOMAIN threads \cup {tid}
                                /\ threads'[tid] = [id |-> tid, history |-> <<>>]]_vars

\* A second run was created in the thread of the first: two runs, one
\* thread, and the latest answer names that thread.
C11_Witness ==
    /\ Cardinality(DOMAIN runs) = 2
    /\ Cardinality(DOMAIN threads) = 1
    /\ chatRes.statusCode = 200
    /\ chatRes.body.threadId \in DOMAIN threads

\* The sinks of a subscriber set other than x, in their order.
Others(clients, x) == SelectSeq(clients, LAMBDA y : y # x)

\* C12: idempotent detach.  The body of the 'close' callback, applied to any
\* run of the runs map and any sink, raises nothing and yields the run with
\* that sink, and no other, taken out of run.clients: run.events, run.done
\* and the other subscribers, in their order, are as before.  Applied to a
\* sink that is not in run.clients (it was never attached to the run, or the
\* callback has run before) it yields the run as it was, and applied once
\* more to its own result it yields that result.  The same holds when the
\* run has ended the sink.
C12_IdempotentDetach ==
    \A r \in DOMAIN runs, s \in Sinks :
        LET d == Detach(runs[r], s) IN
        /\ d.id = runs[r].id
        /\ d.events = runs[r].events
        /\ d.done = runs[r].done
        /\ d.clients = Others(runs[r].clients, s)
        /\ ~SeqHas(runs[r].clients, s) => d = runs[r]
        /\ Detach(d, s) = d

\* The callback has run for one sink of a run; another sink, which the run
\* has ended, is still in the run's subscriber set: a second run of the
\* callback for the first, and a run of it for the ended one, both apply.
C12_Witness ==
    \E s \in Sinks, q \in Sinks :
        /\ sinks[s].conn = "closed"
        /\ sinks[q].conn = "streaming" /\ sinks[q].ended
        /\ runs[sinks[q].run].done
        /\ runs[sinks[q].run].clients = <<q>>

\* The logs the pipeline of a run produces when nothing is subscribed: the
\* two tool events and, once the collaborator has settled, one
\* assistant_done with the reply or with the text of its error.
Production(message, threadId, cardId, done) ==
    LET head == <<ToolStart(message, cardId), ToolDone(cardId)>> IN
    IF ~done THEN {head}
    ELSE {Append(head, AssistantDone(t, threadId)) :
            t \in {AssistantText(message, FakeResults),
                   ErrorText("collaborator failed")}}

\* C13: observer presence does not affect production.  Whatever sinks have
\* attached to a run and detached from it, the run's log is one the pipeline
\* produces with no sink at all, a pipeline that has finished has marked the
\* run done, and a detach changes nothing but run.clients.
C13_ProductionIndependent ==
    [][/\ \A r \in DOMAIN runs' :
            /\ runs'[r].events
                  \in Production(pipe'[r].message, pipe'[r].threadId,
                                 runs'[r].events[1].cardId, runs'[r].done)
            /\ pipe'[r].pc = "closed" => runs'[r].done
       /\ \A s \in Sinks :
            CloseConnection(s)
              => /\ UNCHANGED <<threads, uuid, pipe, chatRes>>
                 /\ \A r \in DOMAIN runs :
                       [runs'[r] EXCEPT !.clients = <<>>]
                         = [runs[r] EXCEPT !.clients = <<>>]]_vars

\* C14: an attach performed after the run is done leaves run.events and
\* run.done as they were, in that run and in every other, and the attaching
\* sink is written exactly the log: one payload per event, in log order.
C14_LateAttachFrame ==
    [][\A s \in Sinks, id \in DOMAIN runs :
         (runs[id].done /\ StreamRequest(s, id))
           => LET ev == runs[id].events IN
              /\ runs'[id].events = ev
              /\ runs'[id].done
              /\ sinks'[s].written = [i \in 1..Len(ev) |-> SsePayload(ev[i])]
              /\ Received(sinks'[s].written) = ev
              /\ \A q \in DOMAIN runs \ {id} : runs'[q] = runs[q]
              /\ DOMAIN runs' = DOMAIN runs]_vars

\* A sink that attached to a run after the run was done (the run has not
\* ended it) and has been written the run's three events.
C14_Witness ==
    \E s \in Sinks :
        /\ sinks[s].conn = "streaming"
        /\ runs[sinks[s].run].done
        /\ ~sinks[s].ended
        /\ Len(sinks[s].written) = 3
        /\ Received(sinks[s].written) = runs[sinks[s].run].events

\* The positions of the events of one type in a log.
EventsAt(events, type) == {i \in 1..Len(events) : events[i].type = type}

\* C15: step pairing and order in the log.  In every state and every run,
\* each tool_done event has a tool_start event with the same cardId before
\* it, no two tool_start events of the run have the same cardId, and when
\* the run is done every tool_start has a tool_done with its cardId after it
\* and before every assistant_done event, of which there is one at least.
C15_StepPairing ==
    \A r \in DOMAIN runs :
        LET ev     == runs[r].events
            starts == EventsAt(ev, "tool_start")
            dones  == EventsAt(ev, "tool_done")
        IN  /\ \A j \in dones :
                  \E i \in starts : i < j /\ ev[i].cardId = ev[j].cardId
            /\ \A i \in starts, k \in starts :
                  ev[i].cardId = ev[k].cardId => i = k
            /\ runs[r].done
                  => /\ TerminalAt(ev) # {}
                     /\ \A i \in starts :
                           \E j \in dones :
                              /\ i < j
                              /\ ev[i].cardId = ev[j].cardId
                              /\ \A t \in TerminalAt(ev) : j < t

\* Two runs are done, each with a tool_start, a tool_done and an
\* assistant_done in its log, and their steps have different cardIds.
C15_Witness ==
    \E r \in DOMAIN runs, q \in DOMAIN runs :
        /\ runs[r].done /\ runs[q].done
        /\ EventsAt(runs[r].events, "tool_start") = {1}
        /\ EventsAt(runs[r].events, "tool_done") = {2}
        /\ EventsAt(runs[q].events, "tool_done") = {2}
        /\ runs[r].events[2].cardId # runs[q].events[2].cardId

\* The state of a run's pipeline as the run shows it: 1 Started (nothing
\* appended yet), 2 Producing, 3 Finalizing (a terminal event is in the log),
\* 4 Closed (run.done).
PipelineState(run) ==
    IF run.done THEN 4
    ELSE IF TerminalAt(run.events) # {} THEN 3
    ELSE IF run.events # <<>> THEN 2
    ELSE 1

\* C16: the pipeline only moves forward.  A run is created with done false;
\* no step takes a run's pipeline to an earlier state, resets run.done, or
\* runs a finished pipeline again; run.done is true only when the log ends
\* with an assistant_done event; and every pipeline that is waiting for the
\* collaborator, whether that resolves or rejects, reaches Closed.
C16_ForwardOnly ==
    /\ [][/\ \A r \in DOMAIN runs :
               /\ r \in DOMAIN runs'
               /\ PipelineState(runs'[r]) >= PipelineState(runs[r])
               /\ runs[r].done => runs'[r].done
               /\ pipe[r].pc = "closed" => pipe'[r] = pipe[r]
          /\ \A q \in DOMAIN runs' :
               /\ q \notin DOMAIN runs => ~runs'[q].done
               /\ runs'[q].done
                    => Len(runs'[q].events) \in TerminalAt(runs'[q].events)]_vars
    /\ \A r \in Uuids :
          (r \in DOMAIN pipe /\ pipe[r].pc = "awaiting")
             ~> (r \in DOMAIN pipe /\ pipe[r].pc = "closed" /\ runs[r].done)

\* One run was closed on the error path, with an error that left its catch
\* block, while the pipeline of another run is still producing.
C16_Witness ==
    \E r \in DOMAIN runs, q \in DOMAIN runs :
        /\ runs[r].done /\ pipe[r].escaped
        /\ PipelineState(runs[q]) = 2 /\ pipe[q].pc = "awaiting"

\* C17: no silent closure.  A sink that attached to a run before the run was
\* done, and to which no write has raised, is never ended by the run before
\* an assistant_done event has been written to it: also when the write to
\* another sink of the run raises during a broadcast.
C17_NoSilentClosure ==
    \A s \in Sinks :
        (Attached(s) /\ sinks[s].ended /\ ~sinks[s].failed)
          => EventsAt(Received(sinks[s].written), "assistant_done") # {}

\* C18: registration precedes the response.  When a POST /api/chat has been
\* answered 200 with {runId, threadId}, runId is a key of the runs map and
\* threadId a key of the threads map; a run that is created gets an
\* identifier that was no key of the runs map, and it is the one the answer
\* carries; no key ever leaves the runs map; and a stream request for a key
\* of the runs map, at whatever time it is made, is not answered NotFound:
\* its sink is attached.
C18_RegistrationPrecedesResponse ==
    [][/\ chatRes'.statusCode = 200
            => /\ chatRes'.body.runId \in DOMAIN runs'
               /\ chatRes'.body.threadId \in DOMAIN threads'
       /\ DOMAIN runs \subseteq DOMAIN runs'
       /\ DOMAIN runs' # DOMAIN runs
            => /\ chatRes'.statusCode = 200
               /\ DOMAIN runs' \ DOMAIN runs = {chatRes'.body.runId}
               /\ runs'[chatRes'.body.runId].id = chatRes'.body.runId
       /\ \A s \in Sinks, id \in DOMAIN runs :
            StreamRequest(s, id)
              => /\ sinks'[s].conn = "streaming"
                 /\ sinks'[s].run = id
                 /\ sinks'[s].statusCode = 200
                 /\ SeqHas(runs'[id].clients, s)]_vars

\* The runId of an earlier answer was requested after its run was done and
\* after a later POST had created a second run, and the sink is attached.
C18_Witness ==
    \E s \in Sinks :
        /\ chatRes.statusCode = 200
        /\ Cardinality(DOMAIN runs) = 2
        /\ sinks[s].conn = "streaming"
        /\ sinks[s].run \in DOMAIN runs \ {chatRes.body.runId}
        /\ runs[sinks[s].run].done
        /\ ~sinks[s].ended

\* The EventSources of the client that are not closed.
OpenSources ==
    {e \in DOMAIN client.sources : client.sources[e].state # "closed"}

\* Everything the client has sent has run its course: every POST has been
\* answered and its answer handled, every pipeline has finished, and every
\* EventSource is closed.
ClientSettled ==
    /\ \A k \in DOMAIN client.fetches : client.fetches[k].state = "handled"
    /\ \A r \in DOMAIN pipe : pipe[r].pc = "closed"
    /\ OpenSources = {}

\* No write to a sink has raised: no pipeline has entered its catch block
\* after its assistant_done was appended, and no error has left one.
NoWriteRaised ==
    \A r \in DOMAIN runs :
        ~pipe[r].escaped /\ Cardinality(TerminalAt(runs[r].events)) <= 1

\* The text of the last event of a run's log.
RunText(r) == runs[r].events[Len(runs[r].events)].text

\* How many assistant messages with text t the chat panel shows.
Shown(t) ==
    Cardinality({j \in DOMAIN client.chat : client.chat[j] = <<"assistant", t>>})

\* How many of the runs the client's POSTs created end with text t.
Owed(t) ==
    Cardinality({k \in DOMAIN client.fetches :
                   /\ client.fetches[k].res.statusCode = 200
                   /\ RunText(client.fetches[k].res.body.runId) = t})

\* C19: the browser client.  At any time the client holds at most one
\* EventSource that is not closed; and once everything it has sent has run
\* its course (with no write of the server to a sink having raised) the send
\* button is enabled again and, for every message whose POST was answered
\* 200, the chat panel shows the assistant_done text of that message's run:
\* also when send() ran a second time before the stream of the first run had
\* delivered its assistant_done.
C19_ClientShowsEveryReply ==
    /\ Cardinality(OpenSources) <= 1
    /\ (ClientSettled /\ NoWriteRaised)
         => /\ ~client.disabled
            /\ \A k \in DOMAIN client.fetches :
                  client.fetches[k].res.statusCode = 200
                    => LET t == RunText(client.fetches[k].res.body.runId)
                       IN  Shown(t) >= Owed(t)

====
